---- MODULE Spec2Model ----
(***************************************************************************)
(* WonderComic frontend: the story store (useStoryGenerator), the main     *)
(* page (MainPage: generation, load, book pagination) and the panel edit   *)
(* (ComicPanel.handleEdit, backendApi).                                    *)
(*                                                                         *)
(* Strings are sequences of tokens, so that startsWith, split(',') and the *)
(* template literals of the source act on them as they do in the code.     *)
(* Every continuation of an async handler (the code between two awaits)    *)
(* is one action: React batches the state updates made in it.              *)
(* Handlers are invoked whenever the component that owns them is mounted;  *)
(* the disabled / hidden state of a control is a predicate of its own.     *)
(***************************************************************************)
EXTENDS Integers, Sequences, FiniteSets, TLC

VARIABLES
    view,            \* MainPage: AppState
    profile,         \* MainPage: KidProfile | null
    currentPage,     \* MainPage: current index of the book
    bookId,          \* route parameter :id (NoId on "/")
    story,           \* useStoryGenerator: Story | null
    savedStoryId,    \* useStoryGenerator: number | null
    timers,          \* pending setTimeout callbacks of navigate, in firing order
    gens,            \* POST /stories/generate calls in flight (request bodies)
    loads,           \* GET /stories/{id} calls in flight (ids)
    edits,           \* handleEdit calls in flight, each with the render it closed over
    patches,         \* PATCH /stories/{id}/panels/{order} calls in flight
    toasts,          \* toast.error: how many messages were produced, and the latest
    ncalls,          \* remote requests issued so far
    crashed,         \* a render threw (no error boundary): the tree is unmounted
    lastStep,        \* the handler continuation that ran last
    stories,         \* GalleryPage: the list on screen (StoryListItem[])
    listing,         \* GalleryPage: GET /stories of loadStories is in flight
    deletes,         \* GalleryPage: DELETE /stories/{id} calls in flight, each
                     \* with the list of the render it closed over
    deleted          \* the gateway: ids whose DELETE succeeded

galleryVars == <<stories, listing, deletes, deleted>>

vars == <<view, profile, currentPage, bookId, story, savedStoryId,
          timers, gens, loads, edits, patches, toasts, ncalls, crashed, lastStep,
          galleryVars>>

(***************************************************************************)
(* Bounds of the model.                                                    *)
(***************************************************************************)
MaxPanels == 2       \* panels of a story in Spec
MaxBookPanels == 11  \* panels of a story in SpecBook
MaxStoryId == 2      \* story ids the gateway hands out: 1..MaxStoryId
MaxCalls == 3        \* remote requests issued in one run of Spec
MaxRequests == 2     \* remote requests issued in one run of SpecEdit
MaxSubmissions == 3  \* remote requests issued in one run of SpecGen
MaxBookLoads == 1    \* books opened in one run of SpecBook
MaxTimers == 1       \* navigate timers pending at once
MaxResolves == 2     \* remote requests issued in one run of SpecResolve
MaxTurnCalls == 2    \* remote requests issued in one run of SpecTurn
MaxLibrary == 3      \* stories the gateway holds when the gallery opens
MaxDeletes == 3      \* DELETE requests issued in one run of SpecGallery

(***************************************************************************)
(* Values.                                                                 *)
(***************************************************************************)
NoId == 0
NoStory == [none |-> TRUE]
NoProfile == [none |-> TRUE]
Null == <<"null">>
Undefined == <<"undefined">>
Empty == <<>>

ONBOARDING == "ONBOARDING"
GENERATING_SCRIPT == "GENERATING_SCRIPT"
STORYBOARD == "STORYBOARD"

StoryIds == 1..MaxStoryId

\* JavaScript truthiness of an optional string.
Truthy(s) == s # Null /\ s # Undefined /\ s # Empty

\* a || b
OrElse(a, b) == IF Truthy(a) THEN a ELSE b

\* s.startsWith('data:'), s.startsWith('http')
StartsWithData(s) == Len(s) > 0 /\ s[1] = "data:"
StartsWithHttp(s) == Len(s) > 0 /\ s[1] = "http"

\* `data:image/png;base64,${b}`
DataUrl(b) == <<"data:", "image/png;base64", ",">> \o b

API_BASE_URL == <<"http", "://localhost:8000">>

\* getImageUrl(filename), ComicPanel's use of it included
getImageUrl(filename) ==
    IF ~Truthy(filename) THEN Undefined
    ELSE IF StartsWithData(filename) \/ StartsWithHttp(filename) THEN filename
    ELSE API_BASE_URL \o <<"/images/">> \o filename

\* s.split(',')[1]: the part between the first and the second comma
RECURSIVE UpToComma(_)
UpToComma(s) ==
    IF s = <<>> \/ Head(s) = "," THEN <<>> ELSE <<Head(s)>> \o UpToComma(Tail(s))

RECURSIVE AfterComma(_)
AfterComma(s) ==
    IF s = <<>> THEN Undefined
    ELSE IF Head(s) = "," THEN UpToComma(Tail(s))
    ELSE AfterComma(Tail(s))

SplitComma1(s) == AfterComma(s)

(***************************************************************************)
(* The gateway's responses (StoryDetailResponse).  A response is drawn by  *)
(* id, panel count and shape: "data" carries inline images, "file" carries *)
(* stored filenames, "null" carries null in every optional field.          *)
(***************************************************************************)
ResponseShapes == {"data", "file", "null"}

PanelDbId(id, k) == id * 100 + k

ResponseImage(shape, name) ==
    IF shape = "data" THEN DataUrl(<<"B0">>)
    ELSE IF shape = "file" THEN <<name>>
    ELSE Null

ResponseText(shape, name) == IF shape = "null" THEN Null ELSE <<name>>

PanelResponse(id, k, shape) ==
    [id |-> PanelDbId(id, k),
     panel_order |-> k - 1,
     text |-> <<"text">>,
     image_prompt |-> ResponseText(shape, "prompt"),
     image_url |-> ResponseImage(shape, "panel.png")]

KidProfileResponse == [name |-> <<"Kid">>, art_style |-> Null]

StoryDetailResponse(id, n, shape) ==
    [id |-> id,
     title |-> ResponseText(shape, "title"),
     foreword |-> ResponseText(shape, "foreword"),
     character_description |-> ResponseText(shape, "cast"),
     cover_image_prompt |-> ResponseText(shape, "coverPrompt"),
     cover_image_url |-> ResponseImage(shape, "cover.png"),
     profile |-> KidProfileResponse,
     panels |-> [k \in 1..n |-> PanelResponse(id, k, shape)]]

\* What a saved book read back from storage looks like.
StoredShapes == {"file"}

(***************************************************************************)
(* useStoryGenerator: mapApiStory.                                         *)
(***************************************************************************)
\* (mutant: a null image_prompt is passed through)
mapApiPanelKeepsNull(p) ==
    [id |-> <<ToString(p.id)>>,
     text |-> p.text,
     imagePrompt |-> p.image_prompt,
     imageUrl |-> OrElse(p.image_url, Undefined),
     isGenerating |-> FALSE]

\* (mutant: the panel text is taken from the prompt)
mapApiPanelTextFromPrompt(p) ==
    [id |-> <<ToString(p.id)>>,
     text |-> OrElse(p.image_prompt, Empty),
     imagePrompt |-> OrElse(p.image_prompt, Empty),
     imageUrl |-> OrElse(p.image_url, Undefined),
     isGenerating |-> FALSE]

mapApiPanel(p) ==
    [id |-> <<ToString(p.id)>>,
     text |-> p.text,
     imagePrompt |-> OrElse(p.image_prompt, Empty),
     imageUrl |-> OrElse(p.image_url, Undefined),
     isGenerating |-> FALSE]

mapApiStory(data) ==
    [title |-> OrElse(data.title, Empty),
     foreword |-> OrElse(data.foreword, Empty),
     characterDescription |-> OrElse(data.character_description, Empty),
     coverImagePrompt |-> OrElse(data.cover_image_prompt, Empty),
     coverImageUrl |-> OrElse(data.cover_image_url, Undefined),
     panels |-> [k \in 1..Len(data.panels) |-> mapApiPanel(data.panels[k])]]

\* The body of PATCH /stories/{id} for a Story: the unlock flag and the full
\* panel list, each panel addressed by its position (UpdateStoryParams).
toUpdatePayload(s) ==
    [is_unlocked |-> TRUE,
     panels |-> [k \in 1..Len(s.panels) |->
                   [panel_order |-> k - 1,
                    text |-> s.panels[k].text,
                    image_prompt |-> s.panels[k].imagePrompt]]]

\* MainPage.loadStoryFromHistory: the Story and the profile built from the response
loadedStory(data) ==
    [title |-> OrElse(data.title, Empty),
     foreword |-> OrElse(data.foreword, Empty),
     characterDescription |-> OrElse(data.character_description, Empty),
     coverImagePrompt |-> OrElse(data.cover_image_prompt, Empty),
     coverImageUrl |-> OrElse(data.cover_image_url, Undefined),
     panels |-> [k \in 1..Len(data.panels) |->
                   [id |-> <<ToString(data.panels[k].id)>>,
                    text |-> data.panels[k].text,
                    imagePrompt |-> OrElse(data.panels[k].image_prompt, Empty),
                    imageUrl |-> OrElse(data.panels[k].image_url, Undefined),
                    isGenerating |-> FALSE]]]

loadedProfile(data) ==
    [name |-> data.profile.name, photoUrl |-> Undefined, artStyle |-> Undefined]

(***************************************************************************)
(* MainPage: the pagination of the book.                                   *)
(***************************************************************************)
DefaultPanelCount == 10

\* story?.panels.length || 10
panelCount(s) ==
    IF s = NoStory \/ Len(s.panels) = 0 THEN DefaultPanelCount ELSE Len(s.panels)

\* Math.ceil(a / 2) for a >= 0
CeilHalf(a) == (a + 1) \div 2

spreadsNeeded(s) == CeilHalf(panelCount(s) + 2)

totalStates(s) == 2 + spreadsNeeded(s)

\* The three blocks of the book container, each under its own condition.
FrontCoverShown(i, T) == i = 0
\* (mutant: the spread block also taken on the last index)
SpreadShownThroughLast(i, T) == i > 0 /\ i <= T - 1
SpreadShown(i, T) == i > 0 /\ i < T - 1
BackCoverShown(i, T) == i = T - 1

\* What a page of a spread holds: the foreword, the closing page, or the
\* ComicPanel of story.panels[idx] (idx counted from 0, as in the source).
Foreword == [kind |-> "foreword"]
Closing == [kind |-> "closing"]
PanelSlot(idx) == [kind |-> "panel", idx |-> idx]

\* (mutant: the left page one panel early)
LeftSlotOneEarly(i, T) == IF i = 1 THEN Foreword ELSE PanelSlot((i - 1) * 2 - 2)
LeftSlot(i, T) == IF i = 1 THEN Foreword ELSE PanelSlot((i - 1) * 2 - 1)
RightSlot(i, T) == IF i = T - 2 THEN Closing ELSE PanelSlot((i - 1) * 2)

\* story.panels[idx] is undefined: ComicPanel reads panel.imageUrl and throws
PanelMissing(s, slot) ==
    slot.kind = "panel" /\ ~(slot.idx \in 0..(Len(s.panels) - 1))

\* Rendering the page i of story s throws.
RenderThrows(v, s, i) ==
    /\ v = STORYBOARD
    /\ s # NoStory
    /\ SpreadShown(i, totalStates(s))
    /\ \/ PanelMissing(s, LeftSlot(i, totalStates(s)))
       \/ PanelMissing(s, RightSlot(i, totalStates(s)))

\* The contents page i of story s puts on screen, in reading order.
PageContents(s, i) ==
    LET T == totalStates(s) IN
    IF RenderThrows(STORYBOARD, s, i) THEN <<>>
    ELSE (IF FrontCoverShown(i, T) THEN <<[kind |-> "frontCover"]>> ELSE <<>>)
         \o (IF SpreadShown(i, T) THEN <<LeftSlot(i, T), RightSlot(i, T)>> ELSE <<>>)
         \o (IF BackCoverShown(i, T) THEN <<[kind |-> "backCover"]>> ELSE <<>>)

\* (mutant: no upper limit)
ClampBelowOnly(T, p) == IF p < 0 THEN 0 ELSE p

\* Math.max(0, Math.min(totalStates - 1, p + dir))
Clamp(T, p) == IF p < 0 THEN 0 ELSE IF p > T - 1 THEN T - 1 ELSE p

Mounted == ~crashed

BookShown == Mounted /\ view = STORYBOARD /\ story # NoStory

Step(name, arg) == [op |-> name, arg |-> arg]

NoToasts == [count |-> 0, last |-> Empty]

\* toast.error(message)
toastError(t, message) == [count |-> t.count + 1, last |-> message]

(***************************************************************************)
(* Init: MainPage mounted on "/", nothing in flight.                       *)
(***************************************************************************)
Init ==
    /\ view = ONBOARDING
    /\ profile = NoProfile
    /\ currentPage = 0
    /\ bookId = NoId
    /\ story = NoStory
    /\ savedStoryId = NoId
    /\ timers = <<>>
    /\ gens = <<>>
    /\ loads = <<>>
    /\ edits = <<>>
    /\ patches = <<>>
    /\ toasts = NoToasts
    /\ ncalls = 0
    /\ crashed = FALSE
    /\ lastStep = Step("mount", 0)
    /\ stories = <<>>
    /\ listing = FALSE
    /\ deletes = <<>>
    /\ deleted = {}

\* sequence s without its element at index i
RemoveAt(s, i) == SubSeq(s, 1, i - 1) \o SubSeq(s, i + 1, Len(s))

(***************************************************************************)
(* MainPage: the route changes to /book/{id}; the effect on bookId calls   *)
(* loadStoryFromHistory, which shows the loader and issues GET.            *)
(***************************************************************************)
BookIdChange(id) ==
    /\ Mounted
    /\ id # bookId
    /\ ncalls < MaxCalls
    /\ bookId' = id
    /\ view' = GENERATING_SCRIPT
    /\ loads' = Append(loads, id)
    /\ ncalls' = ncalls + 1
    /\ crashed' = FALSE
    /\ lastStep' = Step("loadStart", 0)
    /\ UNCHANGED <<galleryVars, profile, currentPage, story, savedStoryId,
                   timers, gens, edits, patches, toasts>>

\* loadStoryFromHistory after getStory resolved with `data`
LoadOk(i, data) ==
    /\ Mounted
    /\ i \in 1..Len(loads)
    /\ loads' = RemoveAt(loads, i)
    /\ profile' = loadedProfile(data)
    /\ story' = loadedStory(data)
    /\ savedStoryId' = loads[i]
    /\ currentPage' = 0
    /\ view' = STORYBOARD
    /\ crashed' = RenderThrows(view', story', currentPage')
    /\ lastStep' = Step("loadOk", 0)
    /\ UNCHANGED <<galleryVars, bookId, timers, gens, edits, patches, toasts, ncalls>>

\* (mutant: a failed load empties the store)
LoadFailClears(i) ==
    /\ Mounted
    /\ i \in 1..Len(loads)
    /\ loads' = RemoveAt(loads, i)
    /\ toasts' = toastError(toasts, <<"Failed to load story">>)
    /\ story' = NoStory
    /\ savedStoryId' = NoId
    /\ view' = ONBOARDING
    /\ crashed' = FALSE
    /\ lastStep' = Step("loadFail", 0)
    /\ UNCHANGED <<galleryVars, profile, currentPage, bookId,
                   timers, gens, edits, patches, ncalls>>

\* loadStoryFromHistory after getStory threw
LoadFail(i) ==
    /\ Mounted
    /\ i \in 1..Len(loads)
    /\ loads' = RemoveAt(loads, i)
    /\ toasts' = toastError(toasts, <<"Failed to load story">>)
    /\ view' = ONBOARDING
    /\ crashed' = FALSE
    /\ lastStep' = Step("loadFail", 0)
    /\ UNCHANGED <<galleryVars, profile, currentPage, bookId, story, savedStoryId,
                   timers, gens, edits, patches, ncalls>>

(***************************************************************************)
(* MainPage: navigate(dir) and the timer it sets.  The callback closes     *)
(* over the totalStates of the render navigate was called from.            *)
(***************************************************************************)
Navigate(dir) ==
    /\ BookShown
    /\ Len(timers) < MaxTimers
    /\ timers' = Append(timers, [dir |-> dir, totalStates |-> totalStates(story)])
    /\ lastStep' = Step("navigate", 0)
    /\ UNCHANGED <<galleryVars, view, profile, currentPage, bookId, story, savedStoryId,
                   gens, loads, edits, patches, toasts, ncalls, crashed>>

TimerFire ==
    /\ Mounted
    /\ timers # <<>>
    /\ currentPage' = Clamp(Head(timers).totalStates, currentPage + Head(timers).dir)
    /\ timers' = Tail(timers)
    /\ crashed' = RenderThrows(view, story, currentPage')
    /\ lastStep' = Step("timerFire",
                         IF currentPage' = currentPage + Head(timers).dir THEN 0 ELSE 1)
    /\ UNCHANGED <<galleryVars, view, profile, bookId, story, savedStoryId,
                   gens, loads, edits, patches, toasts, ncalls>>

(***************************************************************************)
(* MainPage.handleWizardComplete and useStoryGenerator.generateStory.      *)
(***************************************************************************)
\* The profiles the wizard submits.
KidProfile(name, photoUrl) == [name |-> name, photoUrl |-> photoUrl, artStyle |-> <<"comic">>]

Profiles == {KidProfile(<<"Kid">>, DataUrl(<<"P0">>)), KidProfile(Empty, Empty)}

\* generateStory: the request body built from the profile
\* (mutant: the photo is sent as it was embedded)
profileForApiSendsUrl(p) ==
    [name |-> p.name,
     art_style |-> p.artStyle,
     photo_base64 |-> IF StartsWithData(p.photoUrl) THEN p.photoUrl ELSE Undefined]

profileForApi(p) ==
    [name |-> p.name,
     art_style |-> p.artStyle,
     photo_base64 |-> IF StartsWithData(p.photoUrl) THEN SplitComma1(p.photoUrl)
                      ELSE Undefined]

\* (mutant: the submission clears the Story on screen)
WizardCompleteClears(p) ==
    /\ Mounted
    /\ view = ONBOARDING
    /\ ncalls < MaxCalls
    /\ profile' = p
    /\ view' = GENERATING_SCRIPT
    /\ gens' = Append(gens, profileForApi(p))
    /\ ncalls' = ncalls + 1
    /\ story' = NoStory
    /\ savedStoryId' = NoId
    /\ crashed' = FALSE
    /\ lastStep' = Step("generateStart", 0)
    /\ UNCHANGED <<galleryVars, currentPage, bookId, timers, loads, edits, patches, toasts>>

WizardComplete(p) ==
    /\ Mounted
    /\ view = ONBOARDING
    /\ ncalls < MaxCalls
    /\ profile' = p
    /\ view' = GENERATING_SCRIPT
    /\ gens' = Append(gens, profileForApi(p))
    /\ ncalls' = ncalls + 1
    /\ crashed' = FALSE
    /\ lastStep' = Step("generateStart", 0)
    /\ UNCHANGED <<galleryVars, currentPage, bookId, story, savedStoryId,
                   timers, loads, edits, patches, toasts>>

\* (mutant: the id is published, the story is not)
GenerateOkIdOnly(i, data) ==
    /\ Mounted
    /\ i \in 1..Len(gens)
    /\ gens' = RemoveAt(gens, i)
    /\ savedStoryId' = data.id
    /\ view' = STORYBOARD
    /\ crashed' = RenderThrows(view', story, currentPage)
    /\ lastStep' = Step("generateOk", 0)
    /\ UNCHANGED <<galleryVars, profile, currentPage, bookId, story, timers,
                   loads, edits, patches, toasts, ncalls>>

\* generateStory after generateAndSaveStory resolved with {story: data}, and
\* the rest of handleWizardComplete
GenerateOk(i, data) ==
    /\ Mounted
    /\ i \in 1..Len(gens)
    /\ gens' = RemoveAt(gens, i)
    /\ savedStoryId' = data.id
    /\ story' = mapApiStory(data)
    /\ view' = STORYBOARD
    /\ crashed' = RenderThrows(view', story', currentPage)
    /\ lastStep' = Step("generateOk", 0)
    /\ UNCHANGED <<galleryVars, profile, currentPage, bookId, timers,
                   loads, edits, patches, toasts, ncalls>>

\* The ways a request fails: a non-2xx response with or without a detail
\* message, or no response at all (fetch rejects).
Failures ==
    {[kind |-> "http", detail |-> <<"detail">>, statusText |-> <<"Bad Gateway">>],
     [kind |-> "http", detail |-> Undefined, statusText |-> <<"Bad Gateway">>],
     [kind |-> "network", detail |-> Undefined, statusText |-> Undefined]}

\* generateAndSaveStory: the message of the Error thrown
generateErrorMessage(f) ==
    IF f.kind = "network" THEN <<"Failed to fetch">>
    ELSE OrElse(f.detail, <<"Failed to generate story: ">> \o f.statusText)

\* (mutant: the failed call clears the store)
GenerateFailClears(i, f) ==
    /\ Mounted
    /\ i \in 1..Len(gens)
    /\ gens' = RemoveAt(gens, i)
    /\ toasts' = toastError(toasts, generateErrorMessage(f))
    /\ story' = NoStory
    /\ savedStoryId' = NoId
    /\ view' = ONBOARDING
    /\ crashed' = FALSE
    /\ lastStep' = Step("generateFail", 0)
    /\ UNCHANGED <<galleryVars, profile, currentPage, bookId,
                   timers, loads, edits, patches, ncalls>>

\* (mutant: the failed call leaves the view as it is)
GenerateFailStays(i, f) ==
    /\ Mounted
    /\ i \in 1..Len(gens)
    /\ gens' = RemoveAt(gens, i)
    /\ toasts' = toastError(toasts, generateErrorMessage(f))
    /\ crashed' = FALSE
    /\ lastStep' = Step("generateFail", 0)
    /\ UNCHANGED <<galleryVars, view, profile, currentPage, bookId, story, savedStoryId,
                   timers, loads, edits, patches, ncalls>>

\* generateStory after generateAndSaveStory threw, and the catch of
\* handleWizardComplete
GenerateFail(i, f) ==
    /\ Mounted
    /\ i \in 1..Len(gens)
    /\ gens' = RemoveAt(gens, i)
    /\ toasts' = toastError(toasts, generateErrorMessage(f))
    /\ view' = ONBOARDING
    /\ crashed' = FALSE
    /\ lastStep' = Step("generateFail", 0)
    /\ UNCHANGED <<galleryVars, profile, currentPage, bookId, story, savedStoryId,
                   timers, loads, edits, patches, ncalls>>

(***************************************************************************)
(* ComicPanel: the panel of one page of the current spread, and its edit.  *)
(***************************************************************************)
Sides == {"left", "right"}

SlotOf(side, i, T) == IF side = "left" THEN LeftSlot(i, T) ELSE RightSlot(i, T)

\* a ComicPanel is mounted on that side of the book
ComicPanelShown(side) ==
    /\ BookShown
    /\ SpreadShown(currentPage, totalStates(story))
    /\ SlotOf(side, currentPage, totalStates(story)).kind = "panel"

\* props.panel of that ComicPanel
PanelProp(side) == story.panels[SlotOf(side, currentPage, totalStates(story)).idx + 1]

resolvedImageUrl(panel) ==
    IF Truthy(panel.imageUrl)
    THEN (IF StartsWithData(panel.imageUrl) THEN panel.imageUrl
          ELSE getImageUrl(panel.imageUrl))
    ELSE Undefined

isDataUrl(panel) == Truthy(panel.imageUrl) /\ StartsWithData(panel.imageUrl)

\* the edit button of a ComicPanel is on screen
EditButtonShown(panel) ==
    ~panel.isGenerating /\ Truthy(resolvedImageUrl(panel)) /\ isDataUrl(panel)

\* The instructions typed into the edit dialog.
EditPrompts == {Empty, <<"add a dragon">>}

\* The image the edit capability answers with (data.image_base64).
EditedImages == {<<"B1">>}

\* editPanelImage: which of its three branches the source takes
ImageSourceKind(imageSource) ==
    IF StartsWithData(imageSource) THEN "data"
    ELSE IF StartsWithHttp(imageSource) THEN "http"
    ELSE "bare"

\* editPanelImage: pureBase64 for a source that needs no fetch
\* (mutant: every source is split at its comma)
pureBase64AlwaysSplits(imageSource) == SplitComma1(imageSource)
pureBase64(imageSource) ==
    IF StartsWithData(imageSource) THEN SplitComma1(imageSource) ELSE imageSource

\* urlToBase64: the stored bytes, re-encoded
FetchedBase64 == <<"F0">>

\* handleEdit's guard: the edit goes no further
\* (mutant: only the missing image is refused)
EditRefusedImageOnly(panel, editPrompt) == ~Truthy(panel.imageUrl)
EditRefused(panel, editPrompt) == ~Truthy(panel.imageUrl) \/ ~Truthy(editPrompt)

\* handleEdit up to its await: the call it leaves in flight, closed over the
\* render it was invoked from (panel, story and savedStoryId of updatePanel)
EditCall(panel, editPrompt) ==
    LET sourceUrl == OrElse(resolvedImageUrl(panel), panel.imageUrl) IN
    [stage |-> IF ImageSourceKind(sourceUrl) = "http" THEN "fetch" ELSE "post",
     body |-> [image_base64 |-> IF ImageSourceKind(sourceUrl) = "http" THEN Undefined
                                ELSE pureBase64(sourceUrl),
               original_prompt |-> panel.imagePrompt,
               edit_prompt |-> editPrompt,
               cast_guide |-> story.characterDescription,
               style |-> IF profile = NoProfile THEN Undefined ELSE profile.artStyle],
     panel |-> panel,
     story |-> story,
     savedStoryId |-> savedStoryId]

HandleEdit(side, editPrompt) ==
    /\ ComicPanelShown(side)
    /\ IF EditRefused(PanelProp(side), editPrompt)
       THEN /\ lastStep' = Step("editRefused",
                                 IF Truthy(PanelProp(side).imageUrl) THEN 1 ELSE 0)
            /\ UNCHANGED <<galleryVars, edits, ncalls>>
       ELSE /\ ncalls < MaxCalls
            /\ edits' = Append(edits, EditCall(PanelProp(side), editPrompt))
            /\ ncalls' = ncalls + 1
            /\ lastStep' = Step("editStart", 0)
    /\ UNCHANGED <<galleryVars, view, profile, currentPage, bookId, story,
                   savedStoryId, timers, gens, loads, patches, toasts, crashed>>

\* editPanelImage after urlToBase64 resolved: POST /generate/edit-image goes out
FetchOk(i) ==
    /\ Mounted
    /\ i \in 1..Len(edits)
    /\ edits[i].stage = "fetch"
    /\ edits' = [edits EXCEPT ![i].stage = "post",
                              ![i].body.image_base64 = FetchedBase64]
    /\ ncalls' = ncalls + 1
    /\ lastStep' = Step("editFetched", 0)
    /\ UNCHANGED <<galleryVars, view, profile, currentPage, bookId, story,
                   savedStoryId, timers, gens, loads, patches, toasts, crashed>>

\* The image sources editPanelImage can be handed: a bare payload, an
\* inline-embedded image, the address of a stored image.
ImageSources == {<<"B0">>, DataUrl(<<"B0">>), getImageUrl(<<"panel.png">>)}

\* editPanelImage up to its first await: the call it leaves in flight for
\* the source it was handed
editPanelImage(imageSource, editPrompt, originalPrompt, castGuide, style) ==
    [stage |-> IF ImageSourceKind(imageSource) = "http" THEN "fetch" ELSE "post",
     body |-> [image_base64 |-> IF ImageSourceKind(imageSource) = "http" THEN Undefined
                                ELSE pureBase64(imageSource),
               original_prompt |-> originalPrompt,
               edit_prompt |-> editPrompt,
               cast_guide |-> castGuide,
               style |-> style],
     imageSource |-> imageSource]

\* a caller invokes editPanelImage on a source of its own
CallEditPanelImage(imageSource, editPrompt) ==
    /\ Mounted
    /\ ncalls < MaxCalls
    /\ edits' = Append(edits, editPanelImage(imageSource, editPrompt, <<"prompt">>,
                                             <<"cast">>, <<"comic">>))
    /\ ncalls' = ncalls + 1
    /\ lastStep' = Step("editPanelImage", 0)
    /\ UNCHANGED <<galleryVars, view, profile, currentPage, bookId, story,
                   savedStoryId, timers, gens, loads, patches, toasts, crashed>>

\* story.panels.findIndex(p => p.id === id), counted from 0, -1 when absent
findIndex(panels, id) ==
    IF \E k \in 1..Len(panels) : panels[k].id = id
    THEN (CHOOSE k \in 1..Len(panels) :
            /\ panels[k].id = id
            /\ \A j \in 1..(k - 1) : panels[j].id # id) - 1
    ELSE -1

\* updatePanel: the Story it sets
updatedStory(s, updated) ==
    [s EXCEPT !.panels = [k \in 1..Len(s.panels) |->
                            IF s.panels[k].id = updated.id THEN updated
                            ELSE s.panels[k]]]

\* (mutant: the panel is addressed counting from 1)
panelWritesFromOne(s, sid, updated) ==
    IF sid # NoId /\ findIndex(s.panels, updated.id) # -1 /\ Truthy(updated.imageUrl)
    THEN <<[storyId |-> sid,
            panelOrder |-> findIndex(s.panels, updated.id) + 1,
            image_base64 |-> updated.imageUrl]>>
    ELSE <<>>

\* updatePanel: the updatePanelImage calls it makes (PATCH .../panels/{order})
panelWrites(s, sid, updated) ==
    IF sid # NoId /\ findIndex(s.panels, updated.id) # -1 /\ Truthy(updated.imageUrl)
    THEN <<[storyId |-> sid,
            panelOrder |-> findIndex(s.panels, updated.id),
            image_base64 |-> updated.imageUrl]>>
    ELSE <<>>

\* handleEdit's onUpdate argument for the image the service answered with
updatedPanel(panel, b) == [panel EXCEPT !.imageUrl = DataUrl(b)]

\* (mutant: the write goes out and the Story is not set)
EditOkWriteOnly(i, b) ==
    /\ Mounted
    /\ i \in 1..Len(edits)
    /\ edits[i].stage = "post"
    /\ edits' = RemoveAt(edits, i)
    /\ patches' = patches \o panelWrites(edits[i].story, edits[i].savedStoryId,
                                         updatedPanel(edits[i].panel, b))
    /\ ncalls' = ncalls + Len(patches') - Len(patches)
    /\ lastStep' = Step("editOk", 0)
    /\ UNCHANGED <<galleryVars, view, profile, currentPage, bookId, story, crashed,
                   savedStoryId, timers, gens, loads, toasts>>

\* handleEdit after editPanelImage resolved: onUpdate, that is updatePanel of
\* the render the edit was invoked from
EditOk(i, b) ==
    /\ Mounted
    /\ i \in 1..Len(edits)
    /\ edits[i].stage = "post"
    /\ edits' = RemoveAt(edits, i)
    /\ story' = updatedStory(edits[i].story, updatedPanel(edits[i].panel, b))
    /\ patches' = patches \o panelWrites(edits[i].story, edits[i].savedStoryId,
                                         updatedPanel(edits[i].panel, b))
    /\ ncalls' = ncalls + Len(patches') - Len(patches)
    /\ crashed' = RenderThrows(view, story', currentPage)
    /\ lastStep' = Step("editOk", 0)
    /\ UNCHANGED <<galleryVars, view, profile, currentPage, bookId,
                   savedStoryId, timers, gens, loads, toasts>>

\* (mutant: the failed edit still puts an image on the panel)
EditFailOptimistic(i) ==
    /\ Mounted
    /\ i \in 1..Len(edits)
    /\ edits' = RemoveAt(edits, i)
    /\ story' = updatedStory(edits[i].story, updatedPanel(edits[i].panel, <<"B1">>))
    /\ toasts' = toastError(toasts, <<"Oops! Magic failed. Try again.">>)
    /\ crashed' = RenderThrows(view, story', currentPage)
    /\ lastStep' = Step("editFail", 0)
    /\ UNCHANGED <<galleryVars, view, profile, currentPage, bookId,
                   savedStoryId, timers, gens, loads, patches, ncalls>>

\* handleEdit after editPanelImage threw (urlToBase64 or the POST failed)
EditFail(i) ==
    /\ Mounted
    /\ i \in 1..Len(edits)
    /\ edits' = RemoveAt(edits, i)
    /\ toasts' = toastError(toasts, <<"Oops! Magic failed. Try again.">>)
    /\ lastStep' = Step("editFail", 0)
    /\ UNCHANGED <<galleryVars, view, profile, currentPage, bookId, story,
                   savedStoryId, timers, gens, loads, patches, ncalls, crashed>>

\* (mutant: a failed write is reported to the user)
PatchSettleToasts(i, ok) ==
    /\ Mounted
    /\ i \in 1..Len(patches)
    /\ patches' = RemoveAt(patches, i)
    /\ toasts' = IF ok THEN toasts ELSE toastError(toasts, <<"Failed to save panel edit">>)
    /\ lastStep' = Step(IF ok THEN "patchOk" ELSE "patchFail", 0)
    /\ UNCHANGED <<galleryVars, view, profile, currentPage, bookId, story,
                   savedStoryId, timers, gens, loads, edits, ncalls, crashed>>

\* updatePanel after updatePanelImage settled: a console line either way
PatchSettle(i, ok) ==
    /\ Mounted
    /\ i \in 1..Len(patches)
    /\ patches' = RemoveAt(patches, i)
    /\ lastStep' = Step(IF ok THEN "patchOk" ELSE "patchFail", 0)
    /\ UNCHANGED <<galleryVars, view, profile, currentPage, bookId, story,
                   savedStoryId, timers, gens, loads, edits, toasts, ncalls, crashed>>

(***************************************************************************)
(* GalleryPage: the list of saved books and handleDelete.                  *)
(***************************************************************************)
\* GalleryPage mounted on "/gallery": the list is empty and loadStories has
\* its GET /stories in flight.
InitGallery ==
    /\ view = ONBOARDING
    /\ profile = NoProfile
    /\ currentPage = 0
    /\ bookId = NoId
    /\ story = NoStory
    /\ savedStoryId = NoId
    /\ timers = <<>>
    /\ gens = <<>>
    /\ loads = <<>>
    /\ edits = <<>>
    /\ patches = <<>>
    /\ toasts = NoToasts
    /\ ncalls = 0
    /\ crashed = FALSE
    /\ lastStep = Step("mountGallery", 0)
    /\ stories = <<>>
    /\ listing = TRUE
    /\ deletes = <<>>
    /\ deleted = {}

\* the StoryListItem of story id
StoryListItem(id) == [id |-> id, title |-> <<"title">>]

\* what GET /stories answers when the gateway holds the stories 1 .. n
StoryList(n) == [k \in 1..n |-> StoryListItem(k)]

\* stories.filter(s => s.id !== id)
RECURSIVE filterOut(_, _)
filterOut(list, id) ==
    IF list = <<>> THEN <<>>
    ELSE IF Head(list).id = id THEN filterOut(Tail(list), id)
    ELSE <<Head(list)>> \o filterOut(Tail(list), id)

\* loadStories after getStories resolved with data
StoriesLoaded(data) ==
    /\ listing
    /\ listing' = FALSE
    /\ stories' = data
    /\ lastStep' = Step("storiesLoaded", 0)
    /\ UNCHANGED <<view, profile, currentPage, bookId, story, savedStoryId, timers,
                   gens, loads, edits, patches, toasts, ncalls, crashed,
                   deletes, deleted>>

\* loadStories after getStories threw
StoriesLoadFail ==
    /\ listing
    /\ listing' = FALSE
    /\ toasts' = toastError(toasts, <<"Failed to load stories: ", "Failed to fetch stories: ">>)
    /\ lastStep' = Step("storiesLoadFail", 0)
    /\ UNCHANGED <<view, profile, currentPage, bookId, story, savedStoryId, timers,
                   gens, loads, edits, patches, ncalls, crashed,
                   stories, deletes, deleted>>

\* handleDelete up to its await, the confirm dialog answered with yes: the
\* DELETE it leaves in flight, closed over the list of the render the button
\* was clicked in
HandleDelete(id) ==
    /\ \E k \in 1..Len(stories) : stories[k].id = id
    /\ ncalls < MaxDeletes
    /\ deletes' = Append(deletes, [id |-> id, stories |-> stories])
    /\ ncalls' = ncalls + 1
    /\ lastStep' = Step("deleteStart", id)
    /\ UNCHANGED <<view, profile, currentPage, bookId, story, savedStoryId, timers,
                   gens, loads, edits, patches, toasts, crashed,
                   stories, listing, deleted>>

\* handleDelete after deleteStory resolved: the gateway held the story and
\* has removed it
DeleteOk(i) ==
    /\ i \in 1..Len(deletes)
    /\ deletes[i].id \notin deleted
    /\ deleted' = deleted \cup {deletes[i].id}
    /\ deletes' = RemoveAt(deletes, i)
    /\ stories' = filterOut(deletes[i].stories, deletes[i].id)
    /\ lastStep' = Step("deleteOk", deletes[i].id)
    /\ UNCHANGED <<view, profile, currentPage, bookId, story, savedStoryId, timers,
                   gens, loads, edits, patches, toasts, ncalls, crashed, listing>>

\* handleDelete after deleteStory threw (a non-2xx response, or no response)
DeleteFail(i) ==
    /\ i \in 1..Len(deletes)
    /\ deletes' = RemoveAt(deletes, i)
    /\ toasts' = toastError(toasts, <<"Failed to delete story.">>)
    /\ lastStep' = Step("deleteFail", deletes[i].id)
    /\ UNCHANGED <<view, profile, currentPage, bookId, story, savedStoryId, timers,
                   gens, loads, edits, patches, ncalls, crashed,
                   stories, listing, deleted>>

(***************************************************************************)
(* SpecGallery: one GalleryPage and the deletes it has in flight.          *)
(***************************************************************************)
NextGallery ==
    \/ \E n \in 0..MaxLibrary : StoriesLoaded(StoryList(n))
    \/ StoriesLoadFail
    \/ \E id \in 1..MaxLibrary : HandleDelete(id)
    \/ \E i \in 1..Len(deletes) : DeleteOk(i)
    \/ \E i \in 1..Len(deletes) : DeleteFail(i)

SpecGallery == InitGallery /\ [][NextGallery]_vars

\* C29: in the gallery, after any sequence of confirmed deletes, overlapping
\* ones included, the list on screen holds no story whose DELETE succeeded;
\* a failed delete leaves the list as it is and produces one notification.
C29_DeletedStoriesGone ==
    [][/\ \A k \in 1..Len(stories') : stories'[k].id \notin deleted'
       /\ \A i \in 1..Len(deletes) :
             DeleteFail(i) =>
                 stories' = stories /\ toasts'.count = toasts.count + 1]_vars

(***************************************************************************)
(* Spec: one MainPage, its store, and the calls it has in flight.          *)
(***************************************************************************)
Next ==
    \/ \E id \in StoryIds : BookIdChange(id)
    \/ \E i \in 1..Len(loads) : \E n \in 0..MaxPanels : \E shape \in ResponseShapes :
           LoadOk(i, StoryDetailResponse(loads[i], n, shape))
    \/ \E i \in 1..Len(loads) : LoadFail(i)
    \/ \E p \in Profiles : WizardComplete(p)
    \/ \E i \in 1..Len(gens) : \E id \in StoryIds : \E n \in 0..MaxPanels :
         \E shape \in ResponseShapes : GenerateOk(i, StoryDetailResponse(id, n, shape))
    \/ \E i \in 1..Len(gens) : \E f \in Failures : GenerateFail(i, f)
    \/ \E dir \in {-1, 1} : Navigate(dir)
    \/ TimerFire
    \/ \E side \in Sides : \E editPrompt \in EditPrompts : HandleEdit(side, editPrompt)
    \/ \E i \in 1..Len(edits) : FetchOk(i)
    \/ \E i \in 1..Len(edits) : \E b \in EditedImages : EditOk(i, b)
    \/ \E i \in 1..Len(edits) : EditFail(i)
    \/ \E i \in 1..Len(patches) : \E ok \in BOOLEAN : PatchSettle(i, ok)

Spec == Init /\ [][Next]_vars

(***************************************************************************)
(* SpecGen: stories are generated from the wizard while saved books are    *)
(* opened; the book stays on its cover and no panel is edited.             *)
(***************************************************************************)
NextGen ==
    \/ \E id \in StoryIds : ncalls < MaxSubmissions /\ BookIdChange(id)
    \/ \E i \in 1..Len(loads) : \E n \in 0..MaxPanels : \E shape \in ResponseShapes :
           LoadOk(i, StoryDetailResponse(loads[i], n, shape))
    \/ \E i \in 1..Len(loads) : LoadFail(i)
    \/ \E p \in Profiles : ncalls < MaxSubmissions /\ WizardComplete(p)
    \/ \E i \in 1..Len(gens) : \E id \in StoryIds : \E n \in 0..MaxPanels :
         \E shape \in ResponseShapes : GenerateOk(i, StoryDetailResponse(id, n, shape))
    \/ \E i \in 1..Len(gens) : \E f \in Failures : GenerateFail(i, f)

SpecGen == Init /\ [][NextGen]_vars

(***************************************************************************)
(* SpecEdit: the panels of opened books are edited while books are opened  *)
(* and paged through; no story is generated.                               *)
(***************************************************************************)
NextEdit ==
    \/ \E id \in StoryIds : ncalls < MaxRequests /\ BookIdChange(id)
    \/ \E i \in 1..Len(loads) : \E n \in 0..MaxPanels : \E shape \in ResponseShapes :
           LoadOk(i, StoryDetailResponse(loads[i], n, shape))
    \/ \E i \in 1..Len(loads) : LoadFail(i)
    \/ \E dir \in {-1, 1} : Navigate(dir)
    \/ TimerFire
    \/ \E side \in Sides : \E editPrompt \in EditPrompts :
           /\ ComicPanelShown(side)
           /\ EditRefused(PanelProp(side), editPrompt) \/ ncalls < MaxRequests
           /\ HandleEdit(side, editPrompt)
    \/ \E i \in 1..Len(edits) : FetchOk(i)
    \/ \E i \in 1..Len(edits) : \E b \in EditedImages : EditOk(i, b)
    \/ \E i \in 1..Len(edits) : EditFail(i)
    \/ \E i \in 1..Len(patches) : \E ok \in BOOLEAN : PatchSettle(i, ok)

SpecEdit == Init /\ [][NextEdit]_vars

(***************************************************************************)
(* SpecResolve: the images sent to the generation service.  Stories are    *)
(* requested from the wizard, panels of an opened book are edited through  *)
(* ComicPanel, and editPanelImage is also called on sources of each        *)
(* representation; the requests stay in flight or fail.                    *)
(***************************************************************************)
NextResolve ==
    \/ \E id \in StoryIds : ncalls < MaxResolves /\ BookIdChange(id)
    \/ \E p \in Profiles : ncalls < MaxResolves /\ WizardComplete(p)
    \/ \E i \in 1..Len(gens) : \E f \in Failures : GenerateFail(i, f)
    \/ \E i \in 1..Len(loads) : \E n \in 0..MaxPanels : \E shape \in ResponseShapes :
           LoadOk(i, StoryDetailResponse(loads[i], n, shape))
    \/ \E i \in 1..Len(loads) : LoadFail(i)
    \/ \E dir \in {-1, 1} : Navigate(dir)
    \/ TimerFire
    \/ \E side \in Sides : \E editPrompt \in EditPrompts :
           /\ ComicPanelShown(side)
           /\ EditRefused(PanelProp(side), editPrompt) \/ ncalls < MaxResolves
           /\ HandleEdit(side, editPrompt)
    \/ \E imageSource \in ImageSources : \E editPrompt \in EditPrompts \ {Empty} :
           ncalls < MaxResolves /\ CallEditPanelImage(imageSource, editPrompt)
    \/ \E i \in 1..Len(edits) : FetchOk(i)
    \/ \E i \in 1..Len(edits) : EditFail(i)

SpecResolve == Init /\ [][NextResolve]_vars

(***************************************************************************)
(* Properties of SpecGen, of SpecEdit and of SpecResolve.                  *)
(***************************************************************************)
GenerateResponses ==
    {StoryDetailResponse(id, n, shape) :
        id \in StoryIds, n \in 0..MaxPanels, shape \in ResponseShapes}

\* C1: when the generation call fails, Story and SavedStoryId are what they
\* were before, and exactly one error notification is produced.
C1_FailedGenerationLeavesStore ==
    [][\A i \in 1..Len(gens) : \A f \in Failures :
          GenerateFail(i, f) =>
              /\ story' = story
              /\ savedStoryId' = savedStoryId
              /\ toasts'.count = toasts.count + 1]_vars

C1_Witness ==
    /\ lastStep.op = "generateFail"
    /\ story # NoStory
    /\ savedStoryId # NoId
    /\ toasts.count > 0

\* a step of the generation: its submission, its success or its failure
GenerationStep ==
    \/ \E p \in Profiles : WizardComplete(p)
    \/ \E i \in 1..Len(gens) : \E data \in GenerateResponses : GenerateOk(i, data)
    \/ \E i \in 1..Len(gens) : \E f \in Failures : GenerateFail(i, f)

\* C2: a generation that succeeds leaves in the store the SavedStoryId of its
\* response and the Story normalized from that same response, and no step of
\* a generation updates one of the two without the other.
C2_IdAndStoryTogether ==
    [][/\ \A i \in 1..Len(gens) : \A data \in GenerateResponses :
            GenerateOk(i, data) =>
                savedStoryId' = data.id /\ story' = mapApiStory(data)
       /\ GenerationStep =>
            \/ story' = story /\ savedStoryId' = savedStoryId
            \/ \E data \in GenerateResponses :
                   savedStoryId' = data.id /\ story' = mapApiStory(data)]_vars

C2_Witness ==
    /\ lastStep.op = "generateOk"
    /\ story # NoStory
    /\ Len(story.panels) > 0
    /\ savedStoryId \in StoryIds

\* C7: a navigation request that takes effect at an index of 0 .. T-1 leaves
\* the index in 0 .. T-1; a request past either end leaves the index on that
\* end and shows no error.  T is the number of states navigate computed for
\* the book the request was made on.
C7_NavigationClamped ==
    [][(/\ TimerFire
        /\ currentPage \in 0..(Head(timers).totalStates - 1)) =>
           /\ currentPage' \in 0..(Head(timers).totalStates - 1)
           /\ currentPage + Head(timers).dir < 0 =>
                  currentPage' = 0 /\ toasts' = toasts /\ crashed' = crashed
           /\ currentPage + Head(timers).dir > Head(timers).totalStates - 1 =>
                  /\ currentPage' = Head(timers).totalStates - 1
                  /\ toasts' = toasts
                  /\ crashed' = crashed]_vars

\* a request past the last index took effect and was clamped
C7_Witness ==
    /\ lastStep = Step("timerFire", 1)
    /\ BookShown
    /\ currentPage = totalStates(story) - 1

\* C8: an edit requested on a panel without an image, or with an empty
\* instruction, sends no request and leaves the store as it is.
C8_RefusedEditSendsNothing ==
    [][\A side \in Sides : \A editPrompt \in EditPrompts :
          (/\ HandleEdit(side, editPrompt)
           /\ ~Truthy(PanelProp(side).imageUrl) \/ editPrompt = Empty) =>
              /\ story' = story
              /\ savedStoryId' = savedStoryId
              /\ edits' = edits
              /\ patches' = patches
              /\ gens' = gens
              /\ loads' = loads
              /\ ncalls' = ncalls]_vars

\* an edit with an empty instruction was refused on a panel that has an image
C8_Witness ==
    /\ lastStep = Step("editRefused", 1)
    /\ \E side \in Sides : ComicPanelShown(side) /\ Truthy(PanelProp(side).imageUrl)

\* C9: when the remote edit call fails, one error is shown, the Story in the
\* store is unchanged and no persistence write is issued.
C9_FailedEditLeavesPanel ==
    [][\A i \in 1..Len(edits) :
          EditFail(i) =>
              /\ toasts'.count = toasts.count + 1
              /\ story' = story
              /\ savedStoryId' = savedStoryId
              /\ patches' = patches
              /\ ncalls' = ncalls]_vars

C9_Witness ==
    /\ lastStep.op = "editFail"
    /\ story # NoStory
    /\ toasts.count > 0

\* C10: a successful edit of the panel at position k of the Story it was
\* requested on, with a SavedStoryId, issues exactly one
\* PATCH /stories/{SavedStoryId}/panels/k carrying the new image, k being the
\* position of the panel's identity in that Story; Story and SavedStoryId
\* are those of the store whenever the store still holds them.
C10_OnePatchAtPosition ==
    [][\A i \in 1..Len(edits) : \A b \in EditedImages :
          (EditOk(i, b) /\ edits[i].savedStoryId # NoId) =>
              /\ \E k \in 1..Len(edits[i].story.panels) :
                    /\ edits[i].story.panels[k].id = edits[i].panel.id
                    /\ patches' = Append(patches,
                                         [storyId |-> edits[i].savedStoryId,
                                          panelOrder |-> k - 1,
                                          image_base64 |-> DataUrl(b)])
                    /\ story'.panels[k].imageUrl = DataUrl(b)
              /\ (story = edits[i].story /\ savedStoryId = edits[i].savedStoryId) =>
                    /\ patches'[Len(patches')].storyId = savedStoryId
                    /\ story.panels[patches'[Len(patches')].panelOrder + 1].id
                           = edits[i].panel.id]_vars

C10_Witness ==
    /\ lastStep.op = "editOk"
    /\ patches # <<>>
    /\ patches[Len(patches)].panelOrder = 1
    /\ patches[Len(patches)].storyId = savedStoryId

\* C16: a generate request whose profile name is empty is rejected before
\* any remote call: submitting it puts no request in flight.
C16_EmptyNameRejected ==
    [][\A p \in Profiles :
          (WizardComplete(p) /\ ~Truthy(p.name)) =>
              /\ gens' = gens
              /\ ncalls' = ncalls
              /\ story' = story
              /\ savedStoryId' = savedStoryId]_vars

\* C17: every panel on screen that holds an image and is not generating
\* offers the edit action, whether its image is inline or a stored one.
C17_ImageCanBeEdited ==
    \A side \in Sides :
        (/\ ComicPanelShown(side)
         /\ Truthy(PanelProp(side).imageUrl)
         /\ ~PanelProp(side).isGenerating) =>
            EditButtonShown(PanelProp(side))

C20_NoPartialResult ==
    [][/\ \A p \in Profiles :
            WizardComplete(p) => story' = story /\ savedStoryId' = savedStoryId
       /\ (gens # <<>> /\ story' # story) =>
            \/ \E i \in 1..Len(gens) : \E data \in GenerateResponses :
                   GenerateOk(i, data)
            \/ \E i \in 1..Len(loads) : \E n \in 0..MaxPanels :
                 \E shape \in ResponseShapes :
                   LoadOk(i, StoryDetailResponse(loads[i], n, shape))
       /\ \A i \in 1..Len(gens) : \A data \in GenerateResponses :
            GenerateOk(i, data) =>
                /\ Len(story'.panels) = Len(data.panels)
                /\ \A k \in 1..Len(story'.panels) :
                      ~story'.panels[k].isGenerating]_vars

\* a generation was submitted while a Story was in the store, and is in flight
C20_Witness ==
    /\ lastStep.op = "generateStart"
    /\ gens # <<>>
    /\ view = GENERATING_SCRIPT
    /\ story # NoStory
    /\ Len(story.panels) > 0
    /\ savedStoryId # NoId

\* Story s holds, for every optional field that is null in the response, the
\* default textDefault (text and prompt fields) or urlDefault (image urls).
NullFieldsDefaultTo(data, s, textDefault, urlDefault) ==
    /\ data.title = Null => s.title = textDefault
    /\ data.foreword = Null => s.foreword = textDefault
    /\ data.character_description = Null => s.characterDescription = textDefault
    /\ data.cover_image_prompt = Null => s.coverImagePrompt = textDefault
    /\ data.cover_image_url = Null => s.coverImageUrl = urlDefault
    /\ Len(s.panels) = Len(data.panels)
    /\ \A k \in 1..Len(data.panels) :
          /\ data.panels[k].image_prompt = Null => s.panels[k].imagePrompt = textDefault
          /\ data.panels[k].image_url = Null => s.panels[k].imageUrl = urlDefault

\* C21 as stated: the Story in the store, normalized from a response by a
\* generation (mapApiStory) or by a load (loadedStory), holds the empty string
\* for every null optional field of that response, the image urls included.
C21_NullDefaultsAsStated ==
    story # NoStory =>
        \A data \in GenerateResponses :
            (story = mapApiStory(data) \/ story = loadedStory(data)) =>
                NullFieldsDefaultTo(data, story, Empty, Empty)

\* C21 amended: the null text and prompt fields become the empty string, the
\* null image urls (cover_image_url, panel image_url) become undefined.
C21_NullDefaultsAmended ==
    story # NoStory =>
        \A data \in GenerateResponses :
            (story = mapApiStory(data) \/ story = loadedStory(data)) =>
                NullFieldsDefaultTo(data, story, Empty, Undefined)

\* a response with null in every optional field has been normalized
C21_Witness ==
    /\ lastStep.op = "generateOk"
    /\ story # NoStory
    /\ story.title = Empty
    /\ story.coverImageUrl = Undefined
    /\ Len(story.panels) > 0
    /\ story.panels[1].imagePrompt = Empty
    /\ story.panels[1].imageUrl = Undefined

\* the update payload keeps the panel order and the non-null text and prompt
\* fields of the response
RoundTripPreserves(data, payload) ==
    /\ Len(payload.panels) = Len(data.panels)
    /\ \A k \in 1..Len(data.panels) :
          /\ payload.panels[k].panel_order = data.panels[k].panel_order
          /\ data.panels[k].text # Null => payload.panels[k].text = data.panels[k].text
          /\ data.panels[k].image_prompt # Null =>
                 payload.panels[k].image_prompt = data.panels[k].image_prompt

IsBarePayload(s) == Truthy(s) /\ ImageSourceKind(s) = "bare"

\* C23 as stated: when a panel's image is a bare payload (no prefix, not a
\* URL), the request sent to the edit capability carries it unchanged.
C23_BarePanelImageForwarded ==
    \A i \in 1..Len(edits) :
        ("panel" \in DOMAIN edits[i] /\ IsBarePayload(edits[i].panel.imageUrl)) =>
            /\ edits[i].stage = "post"
            /\ edits[i].body.image_base64 = edits[i].panel.imageUrl

\* C23, amended: when the image source handed to editPanelImage is a bare
\* payload, the request carries it unchanged, and resolving what was
\* forwarded once more yields the same payload.
C23_BareSourceForwarded ==
    \A i \in 1..Len(edits) :
        ("imageSource" \in DOMAIN edits[i] /\ IsBarePayload(edits[i].imageSource)) =>
            /\ edits[i].stage = "post"
            /\ edits[i].body.image_base64 = edits[i].imageSource
            /\ IsBarePayload(edits[i].body.image_base64)
            /\ pureBase64(edits[i].body.image_base64) = edits[i].body.image_base64

\* editPanelImage was handed a bare payload and its request is in flight
C23_Witness ==
    /\ lastStep.op = "editPanelImage"
    /\ edits # <<>>
    /\ "imageSource" \in DOMAIN edits[Len(edits)]
    /\ IsBarePayload(edits[Len(edits)].imageSource)

\* the payloads an inline-embedded image can carry
ImagePayloads == {<<"P0">>, <<"B0">>, <<"B1">>}

\* the source the request in flight was resolved from: the panel's image
\* for an edit made through ComicPanel, the argument of a direct call
RequestedSource(call) ==
    IF "panel" \in DOMAIN call THEN call.panel.imageUrl ELSE call.imageSource

\* C24: no image sent to the generation service carries the embedding-scheme
\* prefix; an inline profile photo on generate, and an inline-embedded panel
\* image on edit, are sent as the payload that follows the prefix.
C24_NoPrefixSent ==
    [][/\ \A p \in Profiles :
             WizardComplete(p) =>
                 \A b \in ImagePayloads :
                     p.photoUrl = DataUrl(b) => gens'[Len(gens')].photo_base64 = b
       /\ \A i \in 1..Len(gens') : ~StartsWithData(gens'[i].photo_base64)
       /\ \A i \in 1..Len(edits') :
             /\ edits'[i].stage = "post" =>
                    ~StartsWithData(edits'[i].body.image_base64)
             /\ \A b \in ImagePayloads :
                    RequestedSource(edits'[i]) = DataUrl(b) =>
                        /\ edits'[i].stage = "post"
                        /\ edits'[i].body.image_base64 = b]_vars

\* a story was requested with an inline photo while an edit of an
\* inline-embedded image is in flight
C24_Witness ==
    /\ lastStep.op = "generateStart"
    /\ profile # NoProfile
    /\ StartsWithData(profile.photoUrl)
    /\ gens # <<>>
    /\ \E i \in 1..Len(edits) : StartsWithData(RequestedSource(edits[i]))

\* C25: a generation that has settled has left the in-flight view: its
\* success shows the storyboard, its failure the entry view; the step that
\* settles the call never leaves the loader on screen.
C25_SettledGenerationLeavesLoader ==
    /\ lastStep.op = "generateOk" => view = STORYBOARD
    /\ lastStep.op = "generateFail" => view = ONBOARDING
    /\ lastStep.op \in {"generateOk", "generateFail"} => view # GENERATING_SCRIPT

\* a generation failed while the loader was on screen with nothing else in
\* flight, and the entry view is back
C25_Witness ==
    /\ lastStep.op = "generateFail"
    /\ view = ONBOARDING
    /\ gens = <<>>
    /\ loads = <<>>
    /\ ncalls = 1

\* C30: the image a panel edit writes to the gateway, the image_base64 of
\* PATCH /stories/{id}/panels/{order}, is a bare payload: it does not carry
\* the embedding-scheme prefix.
C30_WrittenImageIsBare ==
    \A i \in 1..Len(patches) :
        /\ ~StartsWithData(patches[i].image_base64)
        /\ patches[i].image_base64 \in EditedImages

\* the panel holds an image the edit capability answered with
HoldsEditedImage(panel) == \E b \in EditedImages : panel.imageUrl = DataUrl(b)

\* C11: when the persistence write of an edited image fails, the Story in the
\* store keeps the edited image (nothing is rolled back), no notification is
\* shown, and no write is issued again.
C11_FailedWriteKeepsImage ==
    [][\A i \in 1..Len(patches) :
          PatchSettle(i, FALSE) =>
              /\ story' = story
              /\ savedStoryId' = savedStoryId
              /\ toasts' = toasts
              /\ patches' = RemoveAt(patches, i)
              /\ edits' = edits
              /\ ncalls' = ncalls]_vars

C11_Witness ==
    /\ lastStep.op = "patchFail"
    /\ story # NoStory
    /\ \E k \in 1..Len(story.panels) : HoldsEditedImage(story.panels[k])
    /\ patches = <<>>
    /\ toasts.count = 0

\* C14: the optimistic update of an edit is applied before its persistence
\* write begins: the step that issues a PATCH leaves in the store a Story
\* whose panel at the addressed position holds the image the PATCH carries.
C14_UpdateBeforeWrite ==
    [][Len(patches') > Len(patches) =>
          /\ Len(patches') = Len(patches) + 1
          /\ story' # NoStory
          /\ patches'[Len(patches')].panelOrder + 1 \in 1..Len(story'.panels)
          /\ story'.panels[patches'[Len(patches')].panelOrder + 1].imageUrl
                 = patches'[Len(patches')].image_base64]_vars

C14_Witness ==
    /\ lastStep.op = "editOk"
    /\ patches # <<>>
    /\ story # NoStory
    /\ \E k \in 1..Len(story.panels) :
          /\ patches[Len(patches)].panelOrder = k - 1
          /\ HoldsEditedImage(story.panels[k])
          /\ story.panels[k].imageUrl = patches[Len(patches)].image_base64

(***************************************************************************)
(* Properties of Spec: calls that overlap.                                 *)
(***************************************************************************)
PanelIds(s) == [k \in 1..Len(s.panels) |-> s.panels[k].id]

\* s and t are one Story, up to the images its panels hold
SameStory(s, t) ==
    /\ s # NoStory
    /\ t # NoStory
    /\ PanelIds(s) = PanelIds(t)
    /\ s.title = t.title

\* C12: edits to different panels of one Story that overlap in time do not
\* interfere: when an edit completes on the Story it was requested on, the
\* panels that already hold an edited image keep it, the edited panel holds
\* its new image, and the write addresses the edited panel's own position.
C12_OverlappingEditsBothKept ==
    [][\A i \in 1..Len(edits) : \A b \in EditedImages :
          (/\ EditOk(i, b)
           /\ savedStoryId = edits[i].savedStoryId
           /\ savedStoryId # NoId
           /\ SameStory(story, edits[i].story)) =>
              /\ \A k \in 1..Len(story.panels) :
                    HoldsEditedImage(story.panels[k]) =>
                        HoldsEditedImage(story'.panels[k])
              /\ \A k \in 1..Len(story.panels) :
                    story.panels[k].id = edits[i].panel.id =>
                        /\ story'.panels[k].imageUrl = DataUrl(b)
                        /\ patches'[Len(patches')].panelOrder = k - 1]_vars

\* C28: when the requested book id changed while an earlier load was in
\* flight, then once every load has settled (none of them failed) the Story
\* and the SavedStoryId of the store are those of the id requested last,
\* in whatever order the responses arrived.
C28_LastRequestedBookWins ==
    (bookId # NoId /\ loads = <<>> /\ toasts.count = 0 /\ story # NoStory) =>
        /\ savedStoryId = bookId
        /\ \A k \in 1..Len(story.panels) : story.panels[k].id = <<ToString(PanelDbId(bookId, k))>>

\* C13: the result of a call is discarded when the store has moved to a
\* different Story while the call was in flight: a generation that completes
\* after a Story was published to the store (the view is the storyboard, which
\* the submission had left), and an edit that completes on a store that no
\* longer holds the Story it was requested on, leave Story and SavedStoryId
\* as they are.
C13_StaleResultDiscarded ==
    [][/\ \A i \in 1..Len(gens) : \A data \in GenerateResponses :
            (GenerateOk(i, data) /\ view = STORYBOARD /\ story # NoStory) =>
                story' = story /\ savedStoryId' = savedStoryId
       /\ \A i \in 1..Len(edits) : \A b \in EditedImages :
            (/\ EditOk(i, b)
             /\ \/ savedStoryId # edits[i].savedStoryId
                \/ ~SameStory(story, edits[i].story)) =>
                story' = story /\ savedStoryId' = savedStoryId]_vars

\* C15: an edit replaces only the panel whose identity matches: the number of
\* panels, the order of their identities, every other panel, and the title,
\* foreword, characterDescription and cover fields of the Story in the store
\* are what they were before the edit completed.
C15_EditReplacesOnlyItsPanel ==
    [][\A i \in 1..Len(edits) : \A b \in EditedImages :
          (EditOk(i, b) /\ story # NoStory) =>
              /\ Len(story'.panels) = Len(story.panels)
              /\ PanelIds(story') = PanelIds(story)
              /\ \A k \in 1..Len(story.panels) :
                    story.panels[k].id # edits[i].panel.id =>
                        story'.panels[k] = story.panels[k]
              /\ story'.title = story.title
              /\ story'.foreword = story.foreword
              /\ story'.characterDescription = story.characterDescription
              /\ story'.coverImagePrompt = story.coverImagePrompt
              /\ story'.coverImageUrl = story.coverImageUrl]_vars

\* the gateway answered non-2xx with a detail message
CarriesDetail(f) == f.kind = "http" /\ Truthy(f.detail)

\* C19: when a generate or an edit-image request is answered non-2xx with a
\* detail message, the one message shown to the user is that detail string.
\* (EditFail(i) is the step for every way the edit call fails, the non-2xx
\* answer to POST /generate/edit-image among them.)
C19_DetailShownVerbatim ==
    [][/\ \A i \in 1..Len(gens) : \A f \in Failures :
            (GenerateFail(i, f) /\ CarriesDetail(f)) =>
                toasts' = toastError(toasts, f.detail)
       /\ \A i \in 1..Len(edits) : \A f \in Failures :
            (EditFail(i) /\ edits[i].stage = "post" /\ CarriesDetail(f)) =>
                toasts' = toastError(toasts, f.detail)]_vars

(***************************************************************************)
(* SpecBook: a saved book is opened and paged through.                     *)
(***************************************************************************)
NextBook ==
    \/ \E id \in StoryIds : ncalls < MaxBookLoads /\ BookIdChange(id)
    \/ \E i \in 1..Len(loads) : \E n \in 0..MaxBookPanels : \E shape \in StoredShapes :
           LoadOk(i, StoryDetailResponse(loads[i], n, shape))
    \/ \E i \in 1..Len(loads) : LoadFail(i)
    \/ \E dir \in {-1, 1} : Navigate(dir)
    \/ TimerFire

SpecBook == Init /\ [][NextBook]_vars

(***************************************************************************)
(* SpecTurn: a book is paged through while the Story in the store is       *)
(* replaced, by opening a saved book or by a generation.                   *)
(***************************************************************************)
NextTurn ==
    \/ \E id \in StoryIds : ncalls < MaxTurnCalls /\ BookIdChange(id)
    \/ \E i \in 1..Len(loads) : \E n \in 0..MaxBookPanels : \E shape \in StoredShapes :
           LoadOk(i, StoryDetailResponse(loads[i], n, shape))
    \/ \E i \in 1..Len(loads) : LoadFail(i)
    \/ \E p \in Profiles : ncalls < MaxTurnCalls /\ WizardComplete(p)
    \/ \E i \in 1..Len(gens) : \E id \in StoryIds : \E n \in 0..MaxBookPanels :
         \E shape \in StoredShapes : GenerateOk(i, StoryDetailResponse(id, n, shape))
    \/ \E i \in 1..Len(gens) : \E f \in Failures : GenerateFail(i, f)
    \/ \E dir \in {-1, 1} : Navigate(dir)
    \/ TimerFire

SpecTurn == Init /\ [][NextTurn]_vars

\* C27: whenever a Story is displayed, the current page index is one of
\* 0 .. T-1 for the T of that Story, also after the Story was replaced by a
\* generation or a load and after a delayed navigation step fired.
C27_PageIndexInRange ==
    BookShown => currentPage \in 0..(totalStates(story) - 1)

(***************************************************************************)
(* The book as a reader sees it: the contents of the pages 0 .. T-1.       *)
(***************************************************************************)
RECURSIVE ContentsFrom(_, _)
ContentsFrom(s, i) ==
    IF i > totalStates(s) - 1 THEN <<>>
    ELSE PageContents(s, i) \o ContentsFrom(s, i + 1)

BookContents(s) == ContentsFrom(s, 0)

IsForeword(c) == c.kind = "foreword"
IsClosing(c) == c.kind = "closing"
IsPanel(c) == c.kind = "panel"

\* the panel indices shown, in reading order
PanelIndices(cs) == [k \in 1..Len(SelectSeq(cs, IsPanel)) |-> SelectSeq(cs, IsPanel)[k].idx]

\* C3: for every panel count n >= 0, paging from 0 to T-1 shows the foreword
\* exactly once, the closing page exactly once, and the panels 0 .. n-1 exactly
\* once each, in increasing order.
C3_EveryContentOnce ==
    story # NoStory =>
        /\ Len(SelectSeq(BookContents(story), IsForeword)) = 1
        /\ Len(SelectSeq(BookContents(story), IsClosing)) = 1
        /\ PanelIndices(BookContents(story)) = [k \in 1..Len(story.panels) |-> k - 1]

\* C26: for every panel count n >= 0 and every spread index i, a page that
\* shows a panel names a panel index of 0 .. n-1: the page on screen never
\* asks for a panel the Story does not have.
C26_ShownPanelsExist ==
    (view = STORYBOARD /\ story # NoStory
        /\ SpreadShown(currentPage, totalStates(story))) =>
        \A side \in Sides :
            SlotOf(side, currentPage, totalStates(story)).kind = "panel" =>
                SlotOf(side, currentPage, totalStates(story)).idx
                    \in 0..(Len(story.panels) - 1)

\* C4: for every panel count n >= 0, n = 0 included, the number of navigable
\* states is T = 2 + ceil((n + 2) / 2).
C4_TotalStatesFormula ==
    story # NoStory => totalStates(story) = 2 + CeilHalf(Len(story.panels) + 2)

ExampleStory == story # NoStory /\ Len(story.panels) = DefaultPanelCount

\* What the example of 10 panels says, but for the left page of state 6.
ExampleLayout ==
    /\ spreadsNeeded(story) = 6
    /\ totalStates(story) = 8
    /\ PageContents(story, 0) = <<[kind |-> "frontCover"]>>
    /\ PageContents(story, 7) = <<[kind |-> "backCover"]>>
    /\ \A i \in 1..6 : Len(PageContents(story, i)) = 2
    /\ PageContents(story, 1)[1] = Foreword
    /\ PageContents(story, 1)[2] = PanelSlot(0)
    /\ PageContents(story, 6)[2] = Closing

\* C5 as stated: for n = 10, spreadsNeeded = 6 and T = 8; state 0 is the front
\* cover, state 7 the back cover, states 1..6 are spreads; state 1 holds the
\* foreword and panel[0], state 6 holds panel[8] and the closing page.
C5_ExampleAsStated ==
    ExampleStory => ExampleLayout /\ PageContents(story, 6)[1] = PanelSlot(8)

\* C5 amended: the same, with panel[9] on the left page of state 6.
C5_ExampleAmended ==
    ExampleStory => ExampleLayout /\ PageContents(story, 6)[1] = PanelSlot(9)

C5_Witness == ExampleStory /\ BookShown /\ currentPage = 6

RolesShown(i, T) ==
    {r \in {"frontCover", "spread", "backCover"} :
        \/ r = "frontCover" /\ FrontCoverShown(i, T)
        \/ r = "spread" /\ SpreadShown(i, T)
        \/ r = "backCover" /\ BackCoverShown(i, T)}

\* C6: every index i of 0 .. T-1 has exactly one role: the front cover at 0,
\* the back cover at T-1, and otherwise a spread whose left page is the
\* foreword iff i = 1 (else panel (i-1)*2 - 1) and whose right page is the
\* closing page iff i = T-2 (else panel (i-1)*2).
C6_OneRolePerIndex ==
    story # NoStory =>
        \A i \in 0..(totalStates(story) - 1) :
            LET T == totalStates(story) IN
            /\ RolesShown(i, T) = IF i = 0 THEN {"frontCover"}
                                  ELSE IF i = T - 1 THEN {"backCover"}
                                  ELSE {"spread"}
            /\ (i # 0 /\ i # T - 1) =>
                  /\ (LeftSlot(i, T) = Foreword) <=> (i = 1)
                  /\ i # 1 => LeftSlot(i, T) = PanelSlot((i - 1) * 2 - 1)
                  /\ (RightSlot(i, T) = Closing) <=> (i = T - 2)
                  /\ i # T - 2 => RightSlot(i, T) = PanelSlot((i - 1) * 2)

C6_Witness ==
    /\ BookShown
    /\ SpreadShown(currentPage, totalStates(story))
    /\ currentPage # 1
    /\ currentPage # totalStates(story) - 2

====
